---- MODULE Spec2Model ----
(***************************************************************************)
(* EDTSP: wire header validation, the membership registry and the leader   *)
(* election of src/src/leader_election.c and src/src/edtsp_core.c, driven  *)
(* by the handlers and the main loop of src/platform/pc/edtsp_pc.c.        *)
(***************************************************************************)
EXTENDS Integers, Sequences, FiniteSets, TLC

(***************************************************************************)
(* protocol.h                                                              *)
(***************************************************************************)
EDTSP_MAGIC == 60769
\* 0xED61

EDTSP_HEARTBEAT_INTERVAL_MS == 1000

EDTSP_HEARTBEAT_TIMEOUT_MS == 5000

EDTSP_MAX_DEVICES == 256

EDTSP_TYPE_DISCOVERY == 1

EDTSP_TYPE_HEARTBEAT == 2

EDTSP_TYPE_HANDSHAKE == 3

EDTSP_TYPE_CONFIG == 4

EDTSP_TYPE_DATA == 5

EDTSP_ROLE_UNKNOWN == 0

EDTSP_ROLE_SLAVE == 1

EDTSP_ROLE_MASTER == 2

(***************************************************************************)
(* Machine integers.  device_count is a uint8_t, identifiers are uint32_t, *)
(* timestamps are uint64_t.  A uint64_t is held as four 16-bit limbs,      *)
(* least significant first, so that the subtraction of                     *)
(* edtsp_check_timeouts wraps modulo 2^64 as it does in C.                 *)
(***************************************************************************)
UINT8_MOD == 2^8

LIMB == 2^16

U64(n) == << n % LIMB, (n \div LIMB) % LIMB, 0, 0 >>

RECURSIVE U64SubFrom(_, _, _, _)
U64SubFrom(a, b, i, borrow) ==
    IF i > 4 THEN << >>
    ELSE LET d == a[i] - b[i] - borrow
         IN  << IF d < 0 THEN d + LIMB ELSE d >>
                \o U64SubFrom(a, b, i + 1, IF d < 0 THEN 1 ELSE 0)

\* a - b on uint64_t
U64Sub(a, b) == U64SubFrom(a, b, 1, 0)

RECURSIVE U64GtFrom(_, _, _)
U64GtFrom(a, b, i) ==
    IF i < 1 THEN FALSE
    ELSE IF a[i] # b[i] THEN a[i] > b[i]
    ELSE U64GtFrom(a, b, i - 1)

\* a > b on uint64_t
U64Gt(a, b) == U64GtFrom(a, b, 4)

(***************************************************************************)
(* leader_election.c: the registry and the election, as operators on the   *)
(* record e of the file's static variables; e.out is what the call printed *)
(* and e.elections how many times it ran edtsp_perform_election.           *)
(* device_list holds the slots written since the memset of                 *)
(* edtsp_election_init, slot 0 first; every slot after them is all zero.   *)
(***************************************************************************)
\* one EDTSPDeviceInfo after memset(.., 0, ..)
ZeroDeviceInfo ==
    [device_id |-> 0, last_heartbeat_ms |-> 0, role |-> 0, active |-> FALSE]

\* device_list[i]
slot(e, i) ==
    IF i \in DOMAIN e.device_list THEN e.device_list[i] ELSE ZeroDeviceInfo

\* device_list[i] = info
put_slot(e, i, info) ==
    [e EXCEPT !.device_list =
        [j \in (DOMAIN e.device_list) \cup {i} |-> IF j = i THEN info ELSE e.device_list[j]]]

edtsp_election_init(device_id) ==
    [my_device_id |-> device_id,
     device_count |-> 0,
     device_list  |-> [i \in {} |-> ZeroDeviceInfo],
     my_role      |-> EDTSP_ROLE_UNKNOWN,
     out          |-> << >>,
     elections    |-> 0]

\* faulty variant: the lookup finds nothing
find_nothing(e, device_id) == -1

\* lines 47-52: the first tracked slot that holds device_id, or -1
find_device_index(e, device_id) ==
    LET hits == {i \in 0 .. (e.device_count - 1) : slot(e, i).device_id = device_id}
    IN  IF hits = {} THEN -1
        ELSE CHOOSE i \in hits : \A j \in hits : i <= j

\* faulty variant: the maximum over every tracked record, active or not
highest_tracked(e) ==
    LET ids == {slot(e, i).device_id : i \in 0 .. (e.device_count - 1)}
                  \cup {e.my_device_id}
    IN  CHOOSE h \in ids : \A x \in ids : x <= h

\* faulty variant: an active record that announced Master is taken for the
\* highest whatever its identifier
highest_active_or_announced_master(e) ==
    LET active == {j \in 0 .. (e.device_count - 1) : slot(e, j).active}
        masters == {j \in active : slot(e, j).role = EDTSP_ROLE_MASTER}
        ids == {slot(e, i).device_id : i \in active} \cup {e.my_device_id}
    IN  IF masters # {}
        THEN slot(e, CHOOSE j \in masters : TRUE).device_id
        ELSE CHOOSE h \in ids : \A x \in ids : x <= h

\* lines 106-114: highest_id after the loop, which starts from my_device_id and
\* takes each greater identifier of an active tracked slot
highest_active(e) ==
    LET ids == {slot(e, i).device_id :
                   i \in {j \in 0 .. (e.device_count - 1) : slot(e, j).active}}
                  \cup {e.my_device_id}
    IN  CHOOSE h \in ids : \A x \in ids : x <= h

\* faulty variant: old_role is read after my_role was assigned, so no change is seen
election_reporting_nothing(e) ==
    LET highest_id == highest_active(e)
    IN  [e EXCEPT !.my_role = IF highest_id = e.my_device_id
                              THEN EDTSP_ROLE_MASTER
                              ELSE EDTSP_ROLE_SLAVE,
                  !.elections = @ + 1]

\* faulty variant: a device with no active peer is left without a role
election_unknown_when_alone(e) ==
    LET highest_id == highest_active(e)
        alone      == \A i \in 0 .. (e.device_count - 1) : ~ slot(e, i).active
        old_role   == e.my_role
        new_role   == IF alone THEN EDTSP_ROLE_UNKNOWN
                      ELSE IF highest_id = e.my_device_id
                      THEN EDTSP_ROLE_MASTER
                      ELSE EDTSP_ROLE_SLAVE
    IN  [e EXCEPT !.my_role = new_role,
                  !.elections = @ + 1,
                  !.out = IF old_role # new_role
                          THEN Append(@, << "ROLE CHANGE", old_role, new_role, highest_id >>)
                          ELSE @]

edtsp_perform_election(e) ==
    LET highest_id == highest_active(e)
        old_role   == e.my_role
        new_role   == IF highest_id = e.my_device_id
                      THEN EDTSP_ROLE_MASTER
                      ELSE EDTSP_ROLE_SLAVE
    IN  [e EXCEPT !.my_role = new_role,
                  !.elections = @ + 1,
                  !.out = IF old_role # new_role
                          THEN Append(@, << "ROLE CHANGE", old_role, new_role, highest_id >>)
                          ELSE @]

\* faulty variant: the active flag is left as it was
store_without_activation(e, idx, timestamp_ms, role) ==
    put_slot(e, idx, [slot(e, idx) EXCEPT !.last_heartbeat_ms = timestamp_ms,
                                          !.role = role])

\* lines 69-71: the three stores every accepted observation ends with
store_observation(e, idx, timestamp_ms, role) ==
    put_slot(e, idx, [slot(e, idx) EXCEPT !.last_heartbeat_ms = timestamp_ms,
                                          !.role = role,
                                          !.active = TRUE])

\* lines 64-66: idx = device_count++, on the uint8_t device_count
append_device(e, device_id) ==
    [put_slot(e, e.device_count, [slot(e, e.device_count) EXCEPT !.device_id = device_id])
        EXCEPT !.device_count = (@ + 1) % UINT8_MOD,
               !.out = Append(@, << "New device discovered", device_id >>)]

edtsp_update_device(e, device_id, timestamp_ms, role) ==
    LET idx == find_device_index(e, device_id)
    IN  IF idx = -1
        THEN IF e.device_count >= EDTSP_MAX_DEVICES
             THEN [e EXCEPT !.out = Append(@, << "Device list full" >>)]
             ELSE store_observation(append_device(e, device_id),
                                    e.device_count, timestamp_ms, role)
        ELSE store_observation(e, idx, timestamp_ms, role)

\* faulty variant: the difference taken on signed numbers
timed_out_signed(current_time_ms, last_heartbeat_ms) ==
    current_time_ms - last_heartbeat_ms > EDTSP_HEARTBEAT_TIMEOUT_MS

\* faulty variant: elapsed >= TIMEOUT
timed_out_at_threshold(current_time_ms, last_heartbeat_ms) ==
    ~ U64Gt(U64(EDTSP_HEARTBEAT_TIMEOUT_MS),
            U64Sub(U64(current_time_ms), U64(last_heartbeat_ms)))

\* line 80-81: elapsed = current_time_ms - last_heartbeat_ms; elapsed > TIMEOUT
timed_out(current_time_ms, last_heartbeat_ms) ==
    U64Gt(U64Sub(U64(current_time_ms), U64(last_heartbeat_ms)),
          U64(EDTSP_HEARTBEAT_TIMEOUT_MS))

\* faulty variant: the loop without its "if (!active) continue"
expired_or_inactive_slots(e, current_time_ms) ==
    {i \in 0 .. (e.device_count - 1) :
        timed_out(current_time_ms, slot(e, i).last_heartbeat_ms)}

\* lines 77-81: the slots the loop finds active and timed out
expired_slots(e, current_time_ms) ==
    {i \in 0 .. (e.device_count - 1) :
        /\ slot(e, i).active
        /\ timed_out(current_time_ms, slot(e, i).last_heartbeat_ms)}

\* lines 77-87: the loop; it clears the active flag of each such slot and prints
\* one line for it, in slot order
sweep(e, current_time_ms) ==
    LET expired == expired_slots(e, current_time_ms)
        order   == SelectSeq([k \in 1 .. e.device_count |-> k - 1],
                             LAMBDA i : i \in expired)
    IN  [e EXCEPT !.device_list =
                      [i \in DOMAIN e.device_list |->
                          IF i \in expired
                          THEN [e.device_list[i] EXCEPT !.active = FALSE]
                          ELSE e.device_list[i]],
                  !.out = @ \o [k \in 1 .. Len(order) |->
                                   << "Device timeout", slot(e, order[k]).device_id >>]]

\* faulty variant: the sweep without the re-election of lines 89-92
check_timeouts_without_election(e, current_time_ms) ==
    sweep(e, current_time_ms)

edtsp_check_timeouts(e, current_time_ms) ==
    LET topology_changed == expired_slots(e, current_time_ms) # {}
    IN  IF topology_changed
        THEN edtsp_perform_election(sweep(e, current_time_ms))
        ELSE sweep(e, current_time_ms)

edtsp_get_my_role(e) == e.my_role

\* lines 136-140: the uint8_t count, one for self and one more per active slot
edtsp_get_active_device_count(e) ==
    (1 + Cardinality({i \in 0 .. (e.device_count - 1) : slot(e, i).active})) % UINT8_MOD

(***************************************************************************)
(* edtsp_pc.c: the two handlers, with the time get_time_ms() returned.     *)
(***************************************************************************)
handle_discovery(e, source_id, now) ==
    edtsp_perform_election(
        edtsp_update_device(e, source_id, now, EDTSP_ROLE_UNKNOWN))

\* faulty variant: the observation without the election of line 146
handle_heartbeat_without_election(e, source_id, role, now) ==
    edtsp_update_device(e, source_id, now, role)

handle_heartbeat(e, source_id, role, now) ==
    edtsp_perform_election(edtsp_update_device(e, source_id, now, role))

(***************************************************************************)
(* edtsp_core.c and protocol.h: byte order and header validation.          *)
(* An unsigned integer of n bytes is held as its n base-256 digits, most   *)
(* significant first (a uint32_t above 2^31 has no other form here).  A    *)
(* packet in memory is the bytes of the wire; a multi-byte field read by   *)
(* the program has the digits its bytes give in the byte order of the      *)
(* host.  cfg.build is "standard" (htons and friends of the C library) or  *)
(* "embedded" (__EMBEDDED__: the manual swaps); cfg.host is "little" or    *)
(* "big".                                                                  *)
(***************************************************************************)
Byte(x, k) == (x \div (256 ^ k)) % 256

\* the digits of a number below 2^16, and of one below 2^31
U16(x) == << Byte(x, 1), Byte(x, 0) >>

U32(x) == << Byte(x, 3), Byte(x, 2), Byte(x, 1), Byte(x, 0) >>

\* the number of a digit sequence (which must be below 2^31)
RECURSIVE NatOf(_)
NatOf(d) == IF d = << >> THEN 0 ELSE NatOf(SubSeq(d, 1, Len(d) - 1)) * 256 + d[Len(d)]

\* x >> 8k and x << 8k on a word of Len(x) bytes, x & m and x | y digit by digit
\* (m a mask of 0x00 and 0xFF bytes; x | y of words with no set bit in common)
ShiftRight(x, k) == [i \in 1 .. Len(x) |-> IF i > k THEN x[i - k] ELSE 0]

ShiftLeft(x, k) == [i \in 1 .. Len(x) |-> IF i + k <= Len(x) THEN x[i + k] ELSE 0]

AndMask(x, m) == [i \in 1 .. Len(x) |-> IF m[i] = 255 THEN x[i] ELSE 0]

Or(x, y) == [i \in 1 .. Len(x) |-> IF x[i] = 0 THEN y[i] ELSE x[i]]

\* lines 24-26: (x >> 8) | (x << 8), on uint16_t
edtsp_swap16(x) == Or(ShiftRight(x, 1), ShiftLeft(x, 1))

\* lines 27-30: the four masked shifts, on uint32_t
edtsp_swap32(x) ==
    Or(Or(AndMask(ShiftRight(x, 3), << 0, 0, 0, 255 >>),
          AndMask(ShiftRight(x, 1), << 0, 0, 255, 0 >>)),
       Or(AndMask(ShiftLeft(x, 1), << 0, 255, 0, 0 >>),
          AndMask(ShiftLeft(x, 3), << 255, 0, 0, 0 >>)))

Reverse(b) == [i \in 1 .. Len(b) |-> b[Len(b) + 1 - i]]

\* htons, htonl, ntohs and ntohl of the C library: nothing on a big-endian
\* host, the bytes reversed on a little-endian one
htons(host, x) == IF host = "big" THEN x ELSE Reverse(x)

htonl(host, x) == IF host = "big" THEN x ELSE Reverse(x)

ntohs(host, x) == IF host = "big" THEN x ELSE Reverse(x)

ntohl(host, x) == IF host = "big" THEN x ELSE Reverse(x)

\* lines 16-35
EDTSP_HTONS(cfg, x) ==
    IF cfg.build = "embedded" THEN edtsp_swap16(x) ELSE htons(cfg.host, x)

EDTSP_HTONL(cfg, x) ==
    IF cfg.build = "embedded" THEN edtsp_swap32(x) ELSE htonl(cfg.host, x)

EDTSP_NTOHS(cfg, x) ==
    IF cfg.build = "embedded" THEN edtsp_swap16(x) ELSE ntohs(cfg.host, x)

EDTSP_NTOHL(cfg, x) ==
    IF cfg.build = "embedded" THEN edtsp_swap32(x) ELSE ntohl(cfg.host, x)

\* a multi-byte field in memory: the digits the host reads from the bytes b,
\* and the bytes the host stores for the digits x
HostValue(host, b) == IF host = "big" THEN b ELSE Reverse(b)

HostBytes(host, x) == IF host = "big" THEN x ELSE Reverse(x)

\* the packed EDTSPHeader laid over the first eight bytes of a buffer
HeaderAt(host, bytes) ==
    [magic       |-> HostValue(host, SubSeq(bytes, 1, 2)),
     type        |-> bytes[3],
     source_id   |-> HostValue(host, SubSeq(bytes, 4, 7)),
     payload_len |-> bytes[8]]

\* faulty variant: the lower bound of the type is not checked
header_valid_any_low_type(h) ==
    IF h.magic # U16(EDTSP_MAGIC) THEN FALSE
    ELSE IF h.type > EDTSP_TYPE_DATA THEN FALSE
    ELSE TRUE

\* protocol.h lines 235-240
edtsp_header_valid(h) ==
    IF h.magic # U16(EDTSP_MAGIC) THEN FALSE
    ELSE IF h.type < EDTSP_TYPE_DISCOVERY \/ h.type > EDTSP_TYPE_DATA THEN FALSE
    ELSE TRUE

\* faulty variant: every header is accepted
parse_header_accepting(cfg, h) ==
    [header |-> [h EXCEPT !.magic = EDTSP_NTOHS(cfg, h.magic),
                          !.source_id = EDTSP_NTOHL(cfg, h.source_id)],
     valid |-> TRUE]

\* edtsp_core.c lines 131-140: the header after the call and the value returned
edtsp_parse_header(cfg, h) ==
    LET converted == [h EXCEPT !.magic = EDTSP_NTOHS(cfg, h.magic),
                               !.source_id = EDTSP_NTOHL(cfg, h.source_id)]
    IN  [header |-> converted, valid |-> edtsp_header_valid(converted)]

(***************************************************************************)
(* edtsp_core.c: the builders.  A packet is the bytes of its packed        *)
(* structure, in the order of the memory of the host that built it.        *)
(***************************************************************************)
EDTSP_VERSION == 1

EDTSP_IFACE_ETH == 1

sizeof_EDTSPHeader == 8

sizeof_EDTSPDiscoveryPacket == 42

sizeof_EDTSPHeartbeatPacket == 14

sizeof_device_name == 32

Zeros(n) == [i \in 1 .. n |-> 0]

\* a pointer argument: null, or the bytes it points at
NULL == [null |-> TRUE]

PointerTo(bytes) == [null |-> FALSE, bytes |-> bytes]

\* faulty variant: the copy is not limited to n characters
strncpy_unbounded(field, src, n) ==
    [i \in 1 .. Len(field) |-> IF i <= Len(src) THEN src[i] ELSE field[i]]

\* strncpy(field, src, n) of a string src into a zeroed field
strncpy(field, src, n) ==
    [i \in 1 .. Len(field) |-> IF i <= n /\ i <= Len(src) THEN src[i] ELSE field[i]]

\* the bytes of an EDTSPHeader in the memory of the host
HeaderBytes(host, h) ==
    HostBytes(host, h.magic) \o << h.type >>
        \o HostBytes(host, h.source_id) \o << h.payload_len >>

\* lines 41-48
edtsp_init_header(cfg, type, source_id, payload_len) ==
    [magic       |-> EDTSP_HTONS(cfg, U16(EDTSP_MAGIC)),
     type        |-> type,
     source_id   |-> EDTSP_HTONL(cfg, source_id),
     payload_len |-> payload_len]

\* lines 54-67
edtsp_build_discovery(cfg, source_id, iface_type, device_name) ==
    HeaderBytes(cfg.host,
                edtsp_init_header(cfg, EDTSP_TYPE_DISCOVERY, source_id,
                                  sizeof_EDTSPDiscoveryPacket - sizeof_EDTSPHeader))
        \o << iface_type, EDTSP_VERSION >>
        \o IF device_name = NULL
           THEN Zeros(sizeof_device_name)
           ELSE strncpy(Zeros(sizeof_device_name), device_name.bytes, sizeof_device_name - 1)

\* lines 69-80
edtsp_build_heartbeat(cfg, source_id, role, uptime_ms, active_devices) ==
    HeaderBytes(cfg.host,
                edtsp_init_header(cfg, EDTSP_TYPE_HEARTBEAT, source_id,
                                  sizeof_EDTSPHeartbeatPacket - sizeof_EDTSPHeader))
        \o << role >>
        \o HostBytes(cfg.host, EDTSP_HTONL(cfg, uptime_ms))
        \o << active_devices >>

\* lines 142-145: uptime_ms converted in place, in the bytes of the packet
edtsp_parse_heartbeat(cfg, pkt) ==
    [i \in 1 .. Len(pkt) |->
        IF i \in 10 .. 13
        THEN HostBytes(cfg.host,
                       EDTSP_NTOHL(cfg, HostValue(cfg.host, SubSeq(pkt, 10, 13))))[i - 9]
        ELSE pkt[i]]

(***************************************************************************)
(* edtsp_core.c: the builders and parsers of the packets the PC program    *)
(* does not yet send.  The packed structures of protocol.h lines 187-221:  *)
(*   EDTSPHandshakePacket  header 1-8, handshake_step 9, target_id 10-13,  *)
(*                         capabilities 14-15, interface_type 16           *)
(*   EDTSPConfigPacket     header 1-8, target_id 9-12, sensor_id 13,       *)
(*                         sampling_rate_ms 14-15, enable 16               *)
(*   EDTSPDataPacket       header 1-8, sensor_id 9, timestamp_ms 10-13,    *)
(*                         data_len 14, data 15-78                         *)
(***************************************************************************)
sizeof_EDTSPHandshakePacket == 16

sizeof_EDTSPConfigPacket == 16

sizeof_EDTSPDataPacket == 78

sizeof_data == 64

\* the field of pkt at bytes a .. b, as the host reads it, and pkt with the
\* digits x stored at bytes a .. b
FieldAt(host, pkt, a, b) == HostValue(host, SubSeq(pkt, a, b))

StoreAt(host, pkt, a, b, x) ==
    [i \in 1 .. Len(pkt) |-> IF i \in a .. b THEN HostBytes(host, x)[i - a + 1] ELSE pkt[i]]

\* memcpy(dst, src, n)
memcpy(dst, src, n) == [i \in 1 .. Len(dst) |-> IF i <= n THEN src[i] ELSE dst[i]]

\* lines 82-95
edtsp_build_handshake(cfg, source_id, step, target_id, caps, iface_type) ==
    HeaderBytes(cfg.host,
                edtsp_init_header(cfg, EDTSP_TYPE_HANDSHAKE, source_id,
                                  sizeof_EDTSPHandshakePacket - sizeof_EDTSPHeader))
        \o << step >>
        \o HostBytes(cfg.host, EDTSP_HTONL(cfg, target_id))
        \o HostBytes(cfg.host, EDTSP_HTONS(cfg, caps))
        \o << iface_type >>

\* lines 97-110
edtsp_build_config(cfg, source_id, target_id, sensor_id, sampling_rate_ms, enable) ==
    HeaderBytes(cfg.host,
                edtsp_init_header(cfg, EDTSP_TYPE_CONFIG, source_id,
                                  sizeof_EDTSPConfigPacket - sizeof_EDTSPHeader))
        \o HostBytes(cfg.host, EDTSP_HTONL(cfg, target_id))
        \o << sensor_id >>
        \o HostBytes(cfg.host, EDTSP_HTONS(cfg, sampling_rate_ms))
        \o << enable >>

\* lines 112-125: the memory of *pkt after the call, which returns nothing
\* and prints nothing (pkt is the memory before the call, data the bytes at
\* the pointer data or NULL)
edtsp_build_data(cfg, pkt, source_id, sensor_id, timestamp_ms, data, data_len) ==
    IF data = NULL \/ data_len > sizeof_data THEN pkt
    ELSE HeaderBytes(cfg.host,
                     edtsp_init_header(cfg, EDTSP_TYPE_DATA, source_id,
                                       sizeof_EDTSPDataPacket - sizeof_EDTSPHeader))
             \o << sensor_id >>
             \o HostBytes(cfg.host, EDTSP_HTONL(cfg, timestamp_ms))
             \o << data_len >>
             \o memcpy(Zeros(sizeof_data), data.bytes, data_len)

\* lines 147-151
edtsp_parse_handshake(cfg, pkt) ==
    LET target == StoreAt(cfg.host, pkt, 10, 13,
                          EDTSP_NTOHL(cfg, FieldAt(cfg.host, pkt, 10, 13)))
    IN  StoreAt(cfg.host, target, 14, 15,
                EDTSP_NTOHS(cfg, FieldAt(cfg.host, target, 14, 15)))

\* lines 153-157
edtsp_parse_config(cfg, pkt) ==
    LET target == StoreAt(cfg.host, pkt, 9, 12,
                          EDTSP_NTOHL(cfg, FieldAt(cfg.host, pkt, 9, 12)))
    IN  StoreAt(cfg.host, target, 14, 15,
                EDTSP_NTOHS(cfg, FieldAt(cfg.host, target, 14, 15)))

\* faulty variant: timestamp_ms left as it came from the wire
parse_data_unconverted(cfg, pkt) == pkt

\* lines 159-162
edtsp_parse_data(cfg, pkt) ==
    StoreAt(cfg.host, pkt, 10, 13, EDTSP_NTOHL(cfg, FieldAt(cfg.host, pkt, 10, 13)))

(***************************************************************************)
(* edtsp_pc.c: receive_packets and the main loop, as operators on the      *)
(* record me of one process: its position pc, the build and host cfg, the  *)
(* globals my_id and start_time_ms, the statics of leader_election.c       *)
(* (core), the locals last_heartbeat and last_timeout_check of main, the   *)
(* bytes at the place of the local buffer of receive_packets (buffer, its  *)
(* first sizeof_EDTSPDiscoveryPacket bytes: no more are read) and the      *)
(* datagrams waiting in udp_socket (socket).                               *)
(***************************************************************************)
\* line 269
TIMEOUT_CHECK_INTERVAL_MS == 1000

\* "now - last >= interval" on uint64_t
due(now, last, interval) == ~ U64Gt(U64(interval), U64Sub(U64(now), U64(last)))

\* "bytes < size" of line 161 (and the negation of "bytes >= size" of lines 177
\* and 185): the ssize_t bytes is converted to the size_t of sizeof, where the
\* -1 of a failed receive is SIZE_MAX and so below no size
less_than_sizeof(bytes, size) == IF bytes < 0 THEN FALSE ELSE bytes < size

\* what the calls printed are not kept between the steps of a process
Quiet(e) == [e EXCEPT !.out = << >>, !.elections = 0]

\* the datagram laid over the buffer by recvfrom
Overlay(buffer, datagram) ==
    [i \in 1 .. Len(buffer) |-> IF i <= Len(datagram) THEN datagram[i] ELSE buffer[i]]

\* line 179 and 187: pkt->header = header_copy
StoreHeader(host, buffer, h) == Overlay(buffer, HeaderBytes(host, h))

\* the uninitialized buffer of line 150 when recvfrom stored nothing in it:
\* the bytes the call before left at its place, or other bytes (all zero here)
Indeterminate(buffer) == {buffer, Zeros(Len(buffer))}

\* lines 158-159: what recvfrom can return and leave in the buffer
recvfrom(me) ==
    IF me.socket # << >>
    THEN {[bytes |-> Len(Head(me.socket)),
           buffer |-> Overlay(me.buffer, Head(me.socket)),
           socket |-> Tail(me.socket)]}
    ELSE {[bytes |-> -1, buffer |-> b, socket |-> me.socket] : b \in Indeterminate(me.buffer)}

\* faulty variant: no packet is taken for one's own
own_packet_never(header_copy, id) == FALSE

\* line 172: header_copy.source_id == my_id
own_packet(header_copy, id) == header_copy.source_id = U32(id)

\* lines 161-196, after recvfrom returned bytes with buffer filled so
receive_packets(me, bytes, buffer, now) ==
    LET got == [me EXCEPT !.buffer = buffer]
        p   == edtsp_parse_header(me.cfg, HeaderAt(me.cfg.host, buffer))
        header_copy == p.header
        stored == StoreHeader(me.cfg.host, buffer, header_copy)
    IN  IF less_than_sizeof(bytes, sizeof_EDTSPHeader) THEN got
        ELSE IF ~ p.valid THEN got
        ELSE IF own_packet(header_copy, me.my_id) THEN got
        ELSE IF header_copy.type = EDTSP_TYPE_DISCOVERY
             THEN IF ~ less_than_sizeof(bytes, sizeof_EDTSPDiscoveryPacket)
                  THEN [got EXCEPT !.buffer = stored,
                                   !.core = handle_discovery(@, NatOf(header_copy.source_id), now)]
                  ELSE got
        ELSE IF header_copy.type = EDTSP_TYPE_HEARTBEAT
             THEN IF ~ less_than_sizeof(bytes, sizeof_EDTSPHeartbeatPacket)
                  THEN [got EXCEPT !.buffer = edtsp_parse_heartbeat(me.cfg, stored),
                                   !.core = handle_heartbeat(@, NatOf(header_copy.source_id),
                                                             stored[9], now)]
                  ELSE got
        ELSE [got EXCEPT !.core.out = Append(@, << "not yet handled", header_copy.type >>)]

\* lines 203-212: the datagram sent (gethostname gave device_name)
send_discovery(me, device_name) ==
    edtsp_build_discovery(me.cfg, U32(me.my_id), EDTSP_IFACE_ETH, PointerTo(device_name))

\* lines 214-222
send_heartbeat(me, now) ==
    edtsp_build_heartbeat(me.cfg, U32(me.my_id), edtsp_get_my_role(me.core),
                          U32(now - me.start_time_ms),
                          edtsp_get_active_device_count(me.core))

\* lines 237-256: main before send_discovery, the socket set up
main_start(cfg, id, now) ==
    [pc |-> "start", cfg |-> cfg, my_id |-> id, start_time_ms |-> now,
     core |-> edtsp_election_init(id),
     last_heartbeat |-> 0, last_timeout_check |-> 0,
     buffer |-> Zeros(sizeof_EDTSPDiscoveryPacket), socket |-> << >>]

\* lines 260-272 of one iteration: the heartbeat sent if one is due, and the
\* process after the sweep if one is due
heartbeat_due(me, now) == due(now, me.last_heartbeat, EDTSP_HEARTBEAT_INTERVAL_MS)

\* faulty variant: the iteration without the sweep of lines 269-272
after_timers_without_sweep(me, now) ==
    IF heartbeat_due(me, now) THEN [me EXCEPT !.last_heartbeat = now] ELSE me

after_timers(me, now) ==
    LET hb == IF heartbeat_due(me, now) THEN [me EXCEPT !.last_heartbeat = now] ELSE me
    IN  IF due(now, hb.last_timeout_check, TIMEOUT_CHECK_INTERVAL_MS)
        THEN [hb EXCEPT !.core = edtsp_check_timeouts(@, now), !.last_timeout_check = now]
        ELSE hb

(***************************************************************************)
(* State: the static variables of leader_election.c; what the last call    *)
(* printed (out), how often it ran the election (elections), and which     *)
(* call it was, with its arguments and what it found (op).                 *)
(***************************************************************************)
VARIABLES my_device_id, device_count, device_list, my_role, out, elections, op

electionVars == << my_device_id, device_count, device_list, my_role, out, elections, op >>

\* The codec on its own: the build and the host it runs on, the header bytes
\* received (wire), the EDTSPHeader laid over them (header), whether
\* edtsp_parse_header was called on it (parsed) and what it returned (valid).
VARIABLES config, wire, header, parsed, valid

\* A builder and its parser on their own: the packet kind and the arguments of
\* the call (request), the memory of the packet structure (packet) and how far
\* the calls went (stage).
VARIABLES request, packet, stage

buildVars == << request, packet, stage >>

codecVars == << config, wire, header, parsed, valid, buildVars >>

\* The network of processes: the record of each process (device), the time
\* get_time_ms returns (clock) and the processes that stopped so far, each with
\* the time it stopped at and the role it held (halts).
VARIABLES device, clock, halts

netVars == << device, clock, halts >>

vars == << electionVars, codecVars, netVars >>

NetIdle ==
    /\ device = << >>
    /\ clock = 0
    /\ halts = << >>

BuildIdle ==
    /\ request = [kind |-> "none"]
    /\ packet = << >>
    /\ stage = "idle"

CodecIdle ==
    /\ BuildIdle
    /\ config = [build |-> "standard", host |-> "little"]
    /\ wire = << >>
    /\ header = HeaderAt("little", << 0, 0, 0, 0, 0, 0, 0, 0 >>)
    /\ parsed = FALSE
    /\ valid = FALSE

\* the static variables as one record, with nothing printed yet by the next call
Election ==
    [my_device_id |-> my_device_id,
     device_count |-> device_count,
     device_list  |-> device_list,
     my_role      |-> my_role,
     out          |-> << >>,
     elections    |-> 0]

Starts(e) ==
    /\ my_device_id = e.my_device_id
    /\ device_count = e.device_count
    /\ device_list = e.device_list
    /\ my_role = e.my_role
    /\ out = e.out
    /\ elections = e.elections
    /\ CodecIdle
    /\ NetIdle

Becomes(e) ==
    /\ my_device_id' = e.my_device_id
    /\ device_count' = e.device_count
    /\ device_list' = e.device_list
    /\ my_role' = e.my_role
    /\ out' = e.out
    /\ elections' = e.elections
    /\ UNCHANGED << codecVars, netVars >>

\* an observation call and what find_device_index gave it
Observation(name, id, t, r) ==
    LET idx == find_device_index(Election, id)
    IN  [name |-> name, device_id |-> id, timestamp_ms |-> t, role |-> r,
         idx |-> idx, was_active |-> idx # -1 /\ slot(Election, idx).active]

\* a sweep call; repeated: the call before it was a sweep with the same time
Sweep(t) ==
    [name |-> "edtsp_check_timeouts", current_time_ms |-> t,
     repeated |-> op.name = "edtsp_check_timeouts" /\ op.current_time_ms = t]

(***************************************************************************)
(* Spec: one device, its registry and election called in any order with    *)
(* any of the inputs below (the clock of get_time_ms is the wall clock:    *)
(* nothing orders the times).                                              *)
(***************************************************************************)
SelfIds == {100, 200}

DeviceIds == {50, 200}

Times == {0, 1000, 6000}

Roles == {EDTSP_ROLE_SLAVE, EDTSP_ROLE_MASTER}

Init ==
    /\ \E id \in SelfIds : Starts(edtsp_election_init(id))
    /\ op = [name |-> "edtsp_election_init"]

UpdateDevice ==
    \E id \in DeviceIds, t \in Times, r \in Roles \cup {EDTSP_ROLE_UNKNOWN} :
        /\ Becomes(edtsp_update_device(Election, id, t, r))
        /\ op' = Observation("edtsp_update_device", id, t, r)

CheckTimeouts ==
    \E t \in Times :
        /\ Becomes(edtsp_check_timeouts(Election, t))
        /\ op' = Sweep(t)

PerformElection ==
    /\ Becomes(edtsp_perform_election(Election))
    /\ op' = [name |-> "edtsp_perform_election"]

HandleDiscovery ==
    \E id \in DeviceIds, t \in Times :
        /\ Becomes(handle_discovery(Election, id, t))
        /\ op' = Observation("handle_discovery", id, t, EDTSP_ROLE_UNKNOWN)

HandleHeartbeat ==
    \E id \in DeviceIds, t \in Times, r \in Roles :
        /\ Becomes(handle_heartbeat(Election, id, r, t))
        /\ op' = Observation("handle_heartbeat", id, t, r)

Next ==
    \/ UpdateDevice
    \/ CheckTimeouts
    \/ PerformElection
    \/ HandleDiscovery
    \/ HandleHeartbeat

Spec == Init /\ [][Next]_vars

(***************************************************************************)
(* SpecFill: one device whose registry is filled by first sightings of the *)
(* identifiers FirstFillId, FirstFillId + 1, ... in this order.  Until the *)
(* slots written come within FillFreeSlots of EDTSP_MAX_DEVICES only first *)
(* sightings happen; from then on also repeated sightings and sweeps.      *)
(***************************************************************************)
FirstFillId == 1001

FillFreeSlots == 1

FillExtraIds == 1

FillSelfId == 100

FillSweepTime == 6000

SlotsWritten == Cardinality(DOMAIN device_list)

NearCapacity == SlotsWritten + FillFreeSlots >= EDTSP_MAX_DEVICES

\* the identifier not seen so far: one more than the highest one stored
NextFreshId ==
    IF DOMAIN device_list = {} THEN FirstFillId
    ELSE 1 + (CHOOSE m \in {device_list[i].device_id : i \in DOMAIN device_list} :
                 \A i \in DOMAIN device_list : device_list[i].device_id <= m)

InitFill ==
    /\ Starts(edtsp_election_init(FillSelfId))
    /\ op = [name |-> "edtsp_election_init"]

FillFirstSighting ==
    /\ NextFreshId < FirstFillId + EDTSP_MAX_DEVICES + FillExtraIds
    /\ Becomes(edtsp_update_device(Election, NextFreshId, 0, EDTSP_ROLE_SLAVE))
    /\ op' = Observation("edtsp_update_device", NextFreshId, 0, EDTSP_ROLE_SLAVE)

FillHeartbeat ==
    /\ NearCapacity
    /\ Becomes(handle_heartbeat(Election, FirstFillId, EDTSP_ROLE_MASTER, FillSweepTime))
    /\ op' = Observation("handle_heartbeat", FirstFillId, FillSweepTime, EDTSP_ROLE_MASTER)

\* a Discovery of an identifier not seen so far, through its handler
FillDiscovery ==
    /\ NearCapacity
    /\ NextFreshId < FirstFillId + EDTSP_MAX_DEVICES + FillExtraIds
    /\ Becomes(handle_discovery(Election, NextFreshId, 0))
    /\ op' = Observation("handle_discovery", NextFreshId, 0, EDTSP_ROLE_UNKNOWN)

FillSweep ==
    /\ NearCapacity
    /\ Becomes(edtsp_check_timeouts(Election, FillSweepTime))
    /\ op' = Sweep(FillSweepTime)

NextFill ==
    \/ FillFirstSighting
    \/ FillHeartbeat
    \/ FillDiscovery
    \/ FillSweep

SpecFill == InitFill /\ [][NextFill]_vars

(***************************************************************************)
(* SpecCodec: a header arrives as eight bytes and is parsed, for each build *)
(* and host and each header of the bytes below.                            *)
(***************************************************************************)
Builds == {"standard", "embedded"}

Hosts == {"little", "big"}

\* 0x61, 0xED and two bytes that belong to no magic
MagicBytes == {97, 237, 236, 0}

TypeBytes == {0, 1, 2, 3, 4, 5, 6, 255}

SourceIdBytes == {<< 0, 0, 0, 100 >>, << 1, 2, 3, 4 >>, << 100, 0, 0, 0 >>}

PayloadLenBytes == {0, 6, 255}

InitCodec ==
    /\ my_device_id = FillSelfId
    /\ device_count = 0
    /\ device_list = << >>
    /\ my_role = EDTSP_ROLE_UNKNOWN
    /\ out = << >>
    /\ elections = 0
    /\ op = [name |-> "edtsp_election_init"]
    /\ config \in [build : Builds, host : Hosts]
    /\ \E m1 \in MagicBytes, m2 \in MagicBytes, t \in TypeBytes,
          id \in SourceIdBytes, len \in PayloadLenBytes :
            wire = << m1, m2, t >> \o id \o << len >>
    /\ header = HeaderAt(config.host, wire)
    /\ parsed = FALSE
    /\ valid = FALSE
    /\ BuildIdle
    /\ NetIdle

ParseHeader ==
    /\ ~ parsed
    /\ parsed' = TRUE
    /\ header' = edtsp_parse_header(config, header).header
    /\ valid' = edtsp_parse_header(config, header).valid
    /\ UNCHANGED << config, wire, buildVars, electionVars, netVars >>

NextCodec == ParseHeader

SpecCodec == InitCodec /\ [][NextCodec]_vars

(***************************************************************************)
(* A builder followed by its parser on one host: the arguments are drawn   *)
(* at the start, Build calls edtsp_init_header or edtsp_build_<kind> on    *)
(* the packet structure and Parse calls edtsp_parse_header and, when the   *)
(* header is accepted, edtsp_parse_<kind> on the same memory.              *)
(***************************************************************************)
Words32 == {<< 0, 0, 0, 100 >>, << 1, 2, 3, 4 >>, << 255, 255, 255, 255 >>}

Words16 == {<< 0, 0 >>, << 1, 2 >>, << 255, 255 >>}

\* the lengths of the device names drawn: below, at and above the capacity of
\* the field
NameLens == {0, 5, sizeof_device_name - 1, sizeof_device_name, sizeof_device_name + 8}

\* the data_len drawn: nothing, one byte, the capacity of data, and beyond it
DataLens == {0, 1, sizeof_data, sizeof_data + 1, UINT8_MOD - 1}

\* a name of n characters, none of them NUL
Name(n) == [i \in 1 .. n |-> 65 + (i % 26)]

\* the bytes at the pointer data: none of them zero
Payload == [i \in 1 .. (UINT8_MOD - 1) |-> UINT8_MOD - i]

\* the memory of a packet structure before the builder is called on it
Stale(n) == [i \in 1 .. n |-> 170]

Requests ==
    [kind : {"header"}, source_id : Words32,
     type : EDTSP_TYPE_DISCOVERY .. EDTSP_TYPE_DATA, payload_len : {0, UINT8_MOD - 1}]
    \cup [kind : {"discovery"}, source_id : Words32,
          iface_type : {EDTSP_IFACE_ETH, UINT8_MOD - 1},
          device_name : {NULL} \cup {PointerTo(Name(n)) : n \in NameLens}]
    \cup [kind : {"heartbeat"}, source_id : Words32,
          role : {EDTSP_ROLE_UNKNOWN, EDTSP_ROLE_MASTER}, uptime_ms : Words32,
          active_devices : {1, UINT8_MOD - 1}]
    \cup [kind : {"handshake"}, source_id : Words32,
          step : {1, 3}, target_id : Words32, caps : Words16,
          iface_type : {EDTSP_IFACE_ETH}]
    \cup [kind : {"config"}, source_id : Words32,
          target_id : Words32, sensor_id : {0, 15}, sampling_rate_ms : Words16,
          enable : {0, 1}]
    \cup [kind : {"data"}, source_id : Words32,
          sensor_id : {0, 15}, timestamp_ms : Words32, data : {NULL, PointerTo(Payload)},
          data_len : DataLens]

\* the arguments of a call of edtsp_build_data made before on the same structure
EarlierData ==
    [kind |-> "data", source_id |-> << 0, 0, 0, 100 >>, sensor_id |-> 0,
     timestamp_ms |-> << 1, 2, 3, 4 >>, data |-> PointerTo(Payload), data_len |-> 1]

sizeof_packet(kind) ==
    CASE kind = "header"    -> sizeof_EDTSPHeader
      [] kind = "discovery" -> sizeof_EDTSPDiscoveryPacket
      [] kind = "heartbeat" -> sizeof_EDTSPHeartbeatPacket
      [] kind = "handshake" -> sizeof_EDTSPHandshakePacket
      [] kind = "config"    -> sizeof_EDTSPConfigPacket
      [] kind = "data"      -> sizeof_EDTSPDataPacket

\* the packet structure after the builder of r.kind was called on pkt
build(cfg, r, pkt) ==
    CASE r.kind = "header" ->
            HeaderBytes(cfg.host, edtsp_init_header(cfg, r.type, r.source_id, r.payload_len))
      [] r.kind = "discovery" ->
            edtsp_build_discovery(cfg, r.source_id, r.iface_type, r.device_name)
      [] r.kind = "heartbeat" ->
            edtsp_build_heartbeat(cfg, r.source_id, r.role, r.uptime_ms, r.active_devices)
      [] r.kind = "handshake" ->
            edtsp_build_handshake(cfg, r.source_id, r.step, r.target_id, r.caps, r.iface_type)
      [] r.kind = "config" ->
            edtsp_build_config(cfg, r.source_id, r.target_id, r.sensor_id,
                               r.sampling_rate_ms, r.enable)
      [] r.kind = "data" ->
            edtsp_build_data(cfg, pkt, r.source_id, r.sensor_id, r.timestamp_ms,
                             r.data, r.data_len)

\* the packet structure after the parser of its kind was called on pkt
parse(cfg, kind, pkt) ==
    CASE kind = "heartbeat" -> edtsp_parse_heartbeat(cfg, pkt)
      [] kind = "handshake" -> edtsp_parse_handshake(cfg, pkt)
      [] kind = "config"    -> edtsp_parse_config(cfg, pkt)
      [] kind = "data"      -> edtsp_parse_data(cfg, pkt)
      [] OTHER              -> pkt

\* what the packet structure can hold when the builder is called: bytes of no
\* meaning, or for a Data packet the packet built by the call before
PriorMemory(cfg, kind) ==
    {Stale(sizeof_packet(kind))}
        \cup IF kind = "data"
             THEN {build(cfg, EarlierData, Stale(sizeof_packet(kind)))}
             ELSE {}

InitRound ==
    /\ my_device_id = FillSelfId
    /\ device_count = 0
    /\ device_list = << >>
    /\ my_role = EDTSP_ROLE_UNKNOWN
    /\ out = << >>
    /\ elections = 0
    /\ op = [name |-> "edtsp_election_init"]
    /\ config \in [build : Builds, host : Hosts]
    /\ request \in Requests
    /\ packet \in PriorMemory(config, request.kind)
    /\ stage = "idle"
    /\ wire = << >>
    /\ header = HeaderAt(config.host, packet)
    /\ parsed = FALSE
    /\ valid = FALSE
    /\ NetIdle

Build ==
    /\ stage = "idle"
    /\ stage' = "built"
    /\ packet' = build(config, request, packet)
    /\ wire' = packet'
    /\ UNCHANGED << config, request, header, parsed, valid, electionVars, netVars >>

Parse ==
    /\ stage = "built"
    /\ stage' = "parsed"
    /\ LET p == edtsp_parse_header(config, HeaderAt(config.host, packet))
           stored == StoreHeader(config.host, packet, p.header)
       IN  /\ header' = p.header
           /\ valid' = p.valid
           /\ packet' = IF p.valid THEN parse(config, request.kind, stored) ELSE stored
    /\ parsed' = TRUE
    /\ UNCHANGED << config, request, wire, electionVars, netVars >>

NextRound == Build \/ Parse

SpecRound == InitRound /\ [][NextRound]_vars

(***************************************************************************)
(* SpecNet: the processes of NetIds on one multicast group.  A process     *)
(* starts (main up to the loop: its socket is set up and its Discovery     *)
(* sent), then runs the loop of main, one iteration a step.  A datagram    *)
(* sent is queued at the socket of every running process, the sender's     *)
(* too; a process with nothing to read waits for the others to read what   *)
(* was sent to them.  Processes start within                               *)
(* the first heartbeat interval, in any order; a process may stop at any   *)
(* point while HaltWindow lasts.  The clock advances by one heartbeat      *)
(* interval once every running process has sent the heartbeat that is due  *)
(* and has emptied its socket.                                             *)
(***************************************************************************)
NetIds == {100, 150, 200}

\* the processes on a big-endian host
NetBigEndian == {100}

\* what gethostname gives: "pc"
HostName == << 112, 99 >>

StartClock == 10000

MaxTicks == 8

MaxHalted == 2

\* A sweep marks a record inactive when more than the timeout has passed since
\* its last observation: at the first tick after the timeout.  One tick later
\* every running process has run that sweep.
FailoverDelay == EDTSP_HEARTBEAT_TIMEOUT_MS + 2 * EDTSP_HEARTBEAT_INTERVAL_MS

\* processes stop while the clock can still advance by FailoverDelay
HaltWindow == clock + FailoverDelay <= StartClock + MaxTicks * EDTSP_HEARTBEAT_INTERVAL_MS

NetConfig(d) ==
    [build |-> "standard", host |-> IF d \in NetBigEndian THEN "big" ELSE "little"]

\* a process that is not running: nothing of it exists
NoProcess(pc, d) == [main_start(NetConfig(d), d, 0) EXCEPT !.pc = pc]

\* sendto on the multicast group
Deliver(dev, datagrams) ==
    [x \in DOMAIN dev |->
        IF dev[x].pc = "loop" THEN [dev[x] EXCEPT !.socket = @ \o datagrams] ELSE dev[x]]

\* no datagram waits at a process other than d
OthersHaveRead(d) ==
    \A x \in NetIds \ {d} : device[x].pc = "loop" => device[x].socket = << >>

InitNet ==
    /\ my_device_id = 0
    /\ device_count = 0
    /\ device_list = << >>
    /\ my_role = EDTSP_ROLE_UNKNOWN
    /\ out = << >>
    /\ elections = 0
    /\ op = [name |-> "main"]
    /\ CodecIdle
    /\ device = [d \in NetIds |-> NoProcess("off", d)]
    /\ clock = StartClock
    /\ halts = << >>

\* lines 237-257: main up to the loop
Start(d) ==
    /\ device[d].pc = "off"
    /\ OthersHaveRead(d)
    /\ LET me == [main_start(NetConfig(d), d, clock) EXCEPT !.pc = "loop"]
       IN  device' = Deliver([device EXCEPT ![d] = me], << send_discovery(me, HostName) >>)
    /\ UNCHANGED << clock, halts, electionVars, codecVars >>

\* lines 259-282: one iteration of the loop
LoopIteration(d) ==
    /\ device[d].pc = "loop"
    /\ device[d].socket # << >> \/ OthersHaveRead(d)
    /\ LET me   == device[d]
           sent == IF heartbeat_due(me, clock) THEN << send_heartbeat(me, clock) >> ELSE << >>
           dev  == Deliver([device EXCEPT ![d] = after_timers(me, clock)], sent)
       IN  \E r \in recvfrom(dev[d]) :
              device' = [dev EXCEPT ![d] =
                            [receive_packets([dev[d] EXCEPT !.socket = r.socket],
                                             r.bytes, r.buffer, clock)
                                EXCEPT !.core = Quiet(@)]]
    /\ UNCHANGED << clock, halts, electionVars, codecVars >>

\* the process is killed
Halt(d) ==
    /\ device[d].pc = "loop"
    /\ Len(halts) < MaxHalted
    /\ HaltWindow
    /\ halts' = Append(halts, [id |-> d, at |-> clock, role |-> device[d].core.my_role])
    /\ device' = [device EXCEPT ![d] = NoProcess("halted", d)]
    /\ UNCHANGED << clock, electionVars, codecVars >>

Tick ==
    /\ clock < StartClock + MaxTicks * EDTSP_HEARTBEAT_INTERVAL_MS
    /\ \A d \in NetIds :
          /\ device[d].pc # "off"
          /\ device[d].pc = "loop" =>
                /\ ~ heartbeat_due(device[d], clock)
                /\ device[d].socket = << >>
    /\ clock' = clock + EDTSP_HEARTBEAT_INTERVAL_MS
    /\ UNCHANGED << device, halts, electionVars, codecVars >>

NextNet ==
    \/ \E d \in NetIds : Start(d)
    \/ \E d \in NetIds : LoopIteration(d)
    \/ \E d \in NetIds : Halt(d)
    \/ Tick

SpecNet == InitNet /\ [][NextNet]_vars

(***************************************************************************)
(* receive_packets on its own: one process in its loop, and any datagram   *)
(* of a small set, or none, at each call.  The core keeps what the call    *)
(* printed and how many elections it ran until the next call.              *)
(***************************************************************************)
MaxRecvTicks == 2

RecvPeerHigh == 200

RecvPeerLow == 50

\* the build and host of the senders: the wire is the same for every host of
\* the standard build
SenderConfig == [build |-> "standard", host |-> "little"]

HeartbeatOf(id, role) == edtsp_build_heartbeat(SenderConfig, U32(id), role, U32(0), 1)

DiscoveryOf(id) ==
    edtsp_build_discovery(SenderConfig, U32(id), EDTSP_IFACE_ETH, PointerTo(HostName))

HandshakeOf(id) ==
    edtsp_build_handshake(SenderConfig, U32(id), 1, U32(FillSelfId), U16(0), EDTSP_IFACE_ETH)

\* well-formed datagrams of peers, of the process itself, and of a kind the
\* program does not handle
WellFormed ==
    {HeartbeatOf(RecvPeerHigh, EDTSP_ROLE_MASTER), HeartbeatOf(RecvPeerLow, EDTSP_ROLE_SLAVE),
     DiscoveryOf(RecvPeerHigh), HeartbeatOf(FillSelfId, EDTSP_ROLE_MASTER),
     HandshakeOf(RecvPeerHigh)}

\* datagrams with a wrong magic (a wrong byte, the two bytes exchanged) and
\* with a kind below and above the kinds of the protocol
BadHeaders ==
    {[HeartbeatOf(RecvPeerHigh, EDTSP_ROLE_MASTER) EXCEPT ![1] = 0],
     [HeartbeatOf(RecvPeerHigh, EDTSP_ROLE_MASTER) EXCEPT ![1] = 97, ![2] = 237],
     [HeartbeatOf(RecvPeerHigh, EDTSP_ROLE_MASTER) EXCEPT ![3] = EDTSP_TYPE_DISCOVERY - 1],
     [HeartbeatOf(RecvPeerHigh, EDTSP_ROLE_MASTER) EXCEPT ![3] = EDTSP_TYPE_DATA + 1],
     [DiscoveryOf(RecvPeerLow) EXCEPT ![2] = 0]}

\* datagrams cut short: below the header, and below the packet of their kind
Truncated ==
    {<< >>,
     SubSeq(HeartbeatOf(RecvPeerHigh, EDTSP_ROLE_MASTER), 1, sizeof_EDTSPHeader - 1),
     SubSeq(HeartbeatOf(RecvPeerHigh, EDTSP_ROLE_MASTER), 1, sizeof_EDTSPHeartbeatPacket - 1),
     SubSeq(DiscoveryOf(RecvPeerLow), 1, sizeof_EDTSPDiscoveryPacket - 1)}

RecvDatagrams == WellFormed \cup BadHeaders \cup Truncated

InitRecv ==
    /\ my_device_id = 0
    /\ device_count = 0
    /\ device_list = << >>
    /\ my_role = EDTSP_ROLE_UNKNOWN
    /\ out = << >>
    /\ elections = 0
    /\ op = [name |-> "main"]
    /\ CodecIdle
    /\ \E host \in Hosts :
          device = [d \in {FillSelfId} |->
                       [main_start([build |-> "standard", host |-> host], d, StartClock)
                           EXCEPT !.pc = "loop"]]
    /\ clock = StartClock
    /\ halts = << >>

\* the call of receive_packets by process d after recvfrom gave r
Received(d, r, datagram) ==
    /\ device' = [device EXCEPT ![d] =
                     receive_packets([device[d] EXCEPT !.core = Quiet(@), !.socket = << >>],
                                     r.bytes, r.buffer, clock)]
    /\ op' = [name |-> "receive_packets", bytes |-> r.bytes, datagram |-> datagram]
    /\ UNCHANGED << my_device_id, device_count, device_list, my_role, out, elections,
                    clock, halts, codecVars >>

\* lines 149-197 with a datagram waiting
ReceiveDatagram(d) ==
    \E datagram \in RecvDatagrams :
        \E r \in recvfrom([device[d] EXCEPT !.socket = << datagram >>]) :
            Received(d, r, datagram)

\* lines 149-197 with no datagram within the 100 ms of SO_RCVTIMEO
ReceiveNothing(d) ==
    \E r \in recvfrom([device[d] EXCEPT !.socket = << >>]) : Received(d, r, << >>)

RecvTick ==
    /\ clock < StartClock + MaxRecvTicks * EDTSP_HEARTBEAT_INTERVAL_MS
    /\ clock' = clock + EDTSP_HEARTBEAT_INTERVAL_MS
    /\ UNCHANGED << device, halts, electionVars, codecVars >>

NextRecv ==
    \/ \E d \in DOMAIN device : ReceiveDatagram(d)
    \/ \E d \in DOMAIN device : ReceiveNothing(d)
    \/ RecvTick

SpecRecv == InitRecv /\ [][NextRecv]_vars

(***************************************************************************)
(* Views of the state used by the properties.                              *)
(***************************************************************************)
Tracked == 0 .. (device_count - 1)

ActiveIds == {device_list[i].device_id : i \in {j \in Tracked : device_list[j].active}}

MaxOf(S) == CHOOSE m \in S : \A x \in S : x <= m

ElectionOps == {"edtsp_perform_election", "handle_discovery", "handle_heartbeat"}

ObservationOps == {"edtsp_update_device", "handle_discovery", "handle_heartbeat"}

RoleChangeIn(printed, old, new) ==
    {m \in {printed[k] : k \in DOMAIN printed} :
        m[1] = "ROLE CHANGE" /\ m[2] = old /\ m[3] = new}

RoleChange(old, new) == RoleChangeIn(out, old, new)

(***************************************************************************)
(* Properties of the single-device specification Spec.                     *)
(***************************************************************************)

\* C1: right after an election (edtsp_perform_election itself, or the one that
\* ends handle_discovery and handle_heartbeat) the role is Master if and only if
\* my_device_id is the maximum of the active identifiers and itself, and Slave
\* otherwise; identifiers of inactive records take no part.
C1_ElectionDeterminism ==
    op.name \in ElectionOps =>
        my_role = IF my_device_id = MaxOf(ActiveIds \cup {my_device_id})
                  THEN EDTSP_ROLE_MASTER
                  ELSE EDTSP_ROLE_SLAVE

\* an election made Master a device that tracks an inactive record of a higher
\* identifier beside an active lower one
C1_Witness ==
    /\ op.name = "edtsp_perform_election"
    /\ my_role = EDTSP_ROLE_MASTER
    /\ ActiveIds # {}
    /\ \E i \in Tracked : ~ device_list[i].active /\ device_list[i].device_id > my_device_id

\* the state of the convergence scenario: device 100 has heard 50 and 200 at t=0,
\* the second of them just now, both through handle_heartbeat
ScenarioObserved ==
    /\ my_device_id = 100
    /\ op.name = "handle_heartbeat" /\ op.timestamp_ms = 0
    /\ device_count = 2
    /\ ActiveIds = {50, 200}
    /\ \A i \in Tracked : device_list[i].last_heartbeat_ms = 0
    /\ my_role \in {EDTSP_ROLE_SLAVE, EDTSP_ROLE_MASTER}

ScenarioSwept ==
    /\ op.name = "edtsp_check_timeouts" /\ op.current_time_ms = 6000
    /\ 200 \notin ActiveIds
    /\ << "Device timeout", 200 >> \in {out[k] : k \in DOMAIN out}
    /\ elections = 1
    /\ my_role = EDTSP_ROLE_MASTER
    /\ RoleChange(EDTSP_ROLE_SLAVE, EDTSP_ROLE_MASTER) # {}

\* C4: device 100, having observed heartbeats of 50 and 200 at t=0, is Slave; a
\* sweep at t=6000 then marks 200 inactive, runs the election and makes 100
\* Master, printing the change from Slave to Master.
C4_ConvergenceScenario ==
    [][ScenarioObserved =>
            /\ my_role = EDTSP_ROLE_SLAVE
            /\ (op'.name = "edtsp_check_timeouts" /\ op'.current_time_ms = 6000)
                    => ScenarioSwept']_vars

C4_Witness ==
    /\ my_device_id = 100
    /\ ScenarioSwept
    /\ device_count = 2
    /\ \A i \in Tracked : device_list[i].last_heartbeat_ms = 0 /\ device_list[i].role # 0

\* C7: an observation of an identifier whose record is inactive sets the record
\* active, stores the new timestamp and role in the same slot and adds no
\* record; when the observation is a handler's, the election that follows counts
\* the identifier again, so a device of a lower identifier is Slave after it.
C7_Rejoin ==
    [][\A i \in Tracked :
          (/\ ~ device_list[i].active
           /\ op'.name \in ObservationOps
           /\ op'.device_id = device_list[i].device_id)
          => /\ device_list'[i] = [device_id |-> device_list[i].device_id,
                                   last_heartbeat_ms |-> op'.timestamp_ms,
                                   role |-> op'.role,
                                   active |-> TRUE]
             /\ device_count' = device_count
             /\ DOMAIN device_list' = DOMAIN device_list
             /\ \A j \in Tracked \ {i} : device_list'[j] = device_list[j]
             /\ op'.name # "edtsp_update_device" =>
                    /\ op'.device_id \in ActiveIds'
                    /\ op'.device_id > my_device_id => my_role' = EDTSP_ROLE_SLAVE
       ]_vars

\* a heartbeat of an identifier recorded as inactive turned a Master into a Slave
C7_Witness ==
    /\ op.name = "handle_heartbeat"
    /\ op.idx # -1 /\ ~ op.was_active
    /\ device_list[op.idx].active
    /\ device_list[op.idx].last_heartbeat_ms = op.timestamp_ms
    /\ RoleChange(EDTSP_ROLE_MASTER, EDTSP_ROLE_SLAVE) # {}

\* C8: a sweep that directly follows a sweep with the same time changes no
\* active flag, nothing else of the registry and not the role, prints nothing
\* and does not run the election.
C8_SweepIdempotent ==
    [][(/\ op.name = "edtsp_check_timeouts"
        /\ op'.name = "edtsp_check_timeouts"
        /\ op'.current_time_ms = op.current_time_ms)
       => /\ device_list' = device_list
          /\ device_count' = device_count
          /\ my_role' = my_role
          /\ out' = << >>
          /\ elections' = 0]_vars

\* the second of two sweeps with the same time, over a registry that holds a
\* record this time has expired and one it has not
C8_Witness ==
    /\ op.name = "edtsp_check_timeouts" /\ op.repeated
    /\ elections = 0
    /\ \E i \in Tracked : /\ ~ device_list[i].active
                          /\ timed_out(op.current_time_ms, device_list[i].last_heartbeat_ms)
    /\ \E i \in Tracked : device_list[i].active

\* C9: edtsp_perform_election prints a role change exactly when the role it
\* computes differs from the role held before, and then once, naming the old
\* and the new role; the new role replaces the old one; an election that
\* directly follows an election prints nothing.
C9_RoleChangeReportedOnce ==
    [][op'.name = "edtsp_perform_election" =>
          /\ elections' = 1
          /\ my_role' \in {EDTSP_ROLE_SLAVE, EDTSP_ROLE_MASTER}
          /\ my_role' # my_role =>
                /\ Len(out') = 1
                /\ RoleChangeIn(out', my_role, my_role') # {}
          /\ my_role' = my_role => out' = << >>
          /\ op.name = "edtsp_perform_election" => out' = << >>
       ]_vars

\* the first election of a device moved it from Unknown to Master and printed it
C9_Witness ==
    /\ op.name = "edtsp_perform_election"
    /\ out = << << "ROLE CHANGE", EDTSP_ROLE_UNKNOWN, EDTSP_ROLE_MASTER, my_device_id >> >>

(***************************************************************************)
(* Properties of the capacity specification SpecFill.                      *)
(***************************************************************************)

\* C5: once EDTSP_MAX_DEVICES distinct identifiers have been stored, each of
\* them is still found by lookup in its slot, and an observation of one more
\* unknown identifier prints "Device list full" and changes neither a record
\* nor the record count.
C5_CapacityRejects ==
    [][op'.name \in ObservationOps =>
          /\ SlotsWritten' = EDTSP_MAX_DEVICES =>
                \A i \in DOMAIN device_list' :
                    find_device_index(Election', device_list'[i].device_id) = i
          /\ (SlotsWritten = EDTSP_MAX_DEVICES /\ op'.idx = -1) =>
                /\ << "Device list full" >> \in {out'[k] : k \in DOMAIN out'}
                /\ device_list' = device_list
                /\ device_count' = device_count
       ]_vars

\* C6: device_count never decreases, and the identifier of a tracked slot is
\* found by lookup in that same slot after every step.
C6_NoRecordDeleted ==
    [][/\ device_count' >= device_count
       /\ \A i \in Tracked :
             find_device_index(Election', device_list[i].device_id) = i
      ]_vars

\* C12: a Discovery or Heartbeat of an unknown identifier that arrives when the
\* registry holds EDTSP_MAX_DEVICES records runs no election: the role stays
\* and no role change is printed.
C12_FullRejectionNoElection ==
    [][(/\ op'.name \in {"handle_discovery", "handle_heartbeat"}
        /\ SlotsWritten = EDTSP_MAX_DEVICES
        /\ op'.idx = -1) =>
          /\ elections' = 0
          /\ my_role' = my_role
          /\ \A k \in DOMAIN out' : out'[k][1] # "ROLE CHANGE"
      ]_vars

\* now - last on uint64_t is above the threshold: the difference itself when
\* now is not before last, and a number near 2^64 when it is
ElapsedAboveThreshold(now, last) ==
    IF now >= last THEN now - last > EDTSP_HEARTBEAT_TIMEOUT_MS ELSE TRUE

\* C18: edtsp_check_timeouts(now) leaves active exactly the tracked records
\* that were active and whose now - last_heartbeat_ms (on uint64_t) is not
\* above the threshold, activates none, changes no identifier, timestamp,
\* role or count, and runs the election once if a flag flipped and not at all
\* if none did.
C18_SweepExact ==
    [][op'.name = "edtsp_check_timeouts" =>
          /\ device_count' = device_count
          /\ DOMAIN device_list' = DOMAIN device_list
          /\ \A i \in DOMAIN device_list :
                /\ device_list'[i].device_id = device_list[i].device_id
                /\ device_list'[i].last_heartbeat_ms = device_list[i].last_heartbeat_ms
                /\ device_list'[i].role = device_list[i].role
          /\ \A i \in Tracked :
                device_list'[i].active =
                    (/\ device_list[i].active
                     /\ ~ ElapsedAboveThreshold(op'.current_time_ms,
                                                device_list[i].last_heartbeat_ms))
          /\ elections' =
                IF \E i \in Tracked : device_list'[i].active # device_list[i].active
                THEN 1 ELSE 0
      ]_vars

\* a sweep left active a record seen exactly the threshold ago, found another
\* one expired and ran the election
C18_Witness ==
    /\ op.name = "edtsp_check_timeouts"
    /\ elections = 1
    /\ \E i \in Tracked :
          /\ device_list[i].active
          /\ op.current_time_ms - device_list[i].last_heartbeat_ms = EDTSP_HEARTBEAT_TIMEOUT_MS
    /\ \E i \in Tracked :
          /\ ~ device_list[i].active
          /\ op.current_time_ms - device_list[i].last_heartbeat_ms > EDTSP_HEARTBEAT_TIMEOUT_MS

\* C24: a sweep with a time before the timestamp of an active tracked record
\* marks that record inactive and runs the election.
C24_ClockBackwards ==
    [][op'.name = "edtsp_check_timeouts" =>
          \A i \in Tracked :
              (/\ device_list[i].active
               /\ op'.current_time_ms < device_list[i].last_heartbeat_ms) =>
                  /\ ~ device_list'[i].active
                  /\ << "Device timeout", device_list[i].device_id >>
                         \in {out'[k] : k \in DOMAIN out'}
                  /\ elections' = 1
      ]_vars

\* a sweep at a time less than the threshold before the timestamp of a record
\* marked it inactive and made the device Master
C24_Witness ==
    /\ op.name = "edtsp_check_timeouts"
    /\ elections = 1
    /\ my_role = EDTSP_ROLE_MASTER
    /\ \E i \in Tracked :
          /\ ~ device_list[i].active
          /\ device_list[i].device_id > my_device_id
          /\ op.current_time_ms < device_list[i].last_heartbeat_ms
          /\ device_list[i].last_heartbeat_ms - op.current_time_ms < EDTSP_HEARTBEAT_TIMEOUT_MS
    /\ RoleChange(EDTSP_ROLE_SLAVE, EDTSP_ROLE_MASTER) # {}

\* the registries that agree with the current one on identifiers and active
\* flags, with any recorded roles and timestamps
SameIdsAndFlags ==
    {[i \in DOMAIN device_list |->
         [device_list[i] EXCEPT !.role = f[i][1], !.last_heartbeat_ms = f[i][2]]] :
       f \in [DOMAIN device_list -> (Roles \cup {EDTSP_ROLE_UNKNOWN}) \X Times]}

\* C25: edtsp_perform_election gives the same role on every registry that
\* agrees with the current one on the identifiers and active flags, whatever
\* the recorded roles and timestamps and whatever the role held before.
C25_ElectionIgnoresRolesAndTimes ==
    LET elected == edtsp_perform_election(Election).my_role
    IN  \A dl \in SameIdsAndFlags, held \in Roles \cup {EDTSP_ROLE_UNKNOWN} :
            edtsp_perform_election([Election EXCEPT !.device_list = dl,
                                                    !.my_role = held]).my_role = elected

\* an election left the device Master while an active record of a lower
\* identifier announces Master
C25_Witness ==
    /\ op.name \in ElectionOps
    /\ elections = 1
    /\ my_role = EDTSP_ROLE_MASTER
    /\ \E i \in Tracked :
          /\ device_list[i].active
          /\ device_list[i].role = EDTSP_ROLE_MASTER
          /\ device_list[i].device_id < my_device_id

\* C26: the tracked slots hold pairwise distinct identifiers.
C26_DistinctIdentifiers ==
    \A i \in Tracked, j \in Tracked :
        i # j => device_list[i].device_id # device_list[j].device_id

\* an identifier that has a record was observed again, with another one tracked
C26_Witness ==
    /\ op.name = "edtsp_update_device"
    /\ op.idx # -1
    /\ device_count = Cardinality(DeviceIds)

\* C27: a step that runs the election leaves the role Master or Slave, and a
\* role that is Master or Slave is Master or Slave after every step.
C27_NeverBackToUnknown ==
    [][/\ elections' > 0 => my_role' \in {EDTSP_ROLE_SLAVE, EDTSP_ROLE_MASTER}
       /\ my_role # EDTSP_ROLE_UNKNOWN => my_role' \in {EDTSP_ROLE_SLAVE, EDTSP_ROLE_MASTER}
      ]_vars

\* a sweep deactivated the last active record of a Slave and its election made
\* the device Master
C27_Witness ==
    /\ op.name = "edtsp_check_timeouts"
    /\ elections = 1
    /\ device_count > 0
    /\ ActiveIds = {}
    /\ my_role = EDTSP_ROLE_MASTER
    /\ RoleChange(EDTSP_ROLE_SLAVE, EDTSP_ROLE_MASTER) # {}

\* C19: a step other than edtsp_check_timeouts clears no active flag, and every
\* identifier of the active view before the step is in the active view after
\* it.
C19_OnlySweepDeactivates ==
    [][op'.name # "edtsp_check_timeouts" =>
          /\ \A i \in DOMAIN device_list :
                device_list[i].active =>
                    (i \in DOMAIN device_list' /\ device_list'[i].active)
          /\ ActiveIds \subseteq ActiveIds'
      ]_vars

\* C20: after every event of the loop (a Discovery or a Heartbeat through its
\* handler, a sweep), once the role has left Unknown, the role is Master
\* exactly when no active record holds an identifier greater than the local
\* one.
C20_RoleFollowsRegistry ==
    [][(/\ op'.name \in {"handle_discovery", "handle_heartbeat", "edtsp_check_timeouts"}
        /\ my_role' # EDTSP_ROLE_UNKNOWN) =>
          (my_role' = EDTSP_ROLE_MASTER <=>
              \A i \in DOMAIN device_list' :
                  device_list'[i].active => device_list'[i].device_id <= my_device_id')
      ]_vars

\* C22: edtsp_get_active_device_count is the number of active records of the
\* registry plus one, for every number of records up to EDTSP_MAX_DEVICES.
C22_ActiveCount ==
    SlotsWritten <= EDTSP_MAX_DEVICES =>
        edtsp_get_active_device_count(Election) =
            Cardinality({i \in DOMAIN device_list : device_list[i].active}) + 1

(***************************************************************************)
(* Properties of the codec specification SpecCodec.                        *)
(***************************************************************************)
\* the builds whose conversion is the one from network to host order on their
\* host: the C library's on either host, the manual swap on a little-endian one
ConvertsToHostOrder == config.build = "standard" \/ config.host = "little"

\* the numbers the wire carries, most significant byte first
WireMagic == SubSeq(wire, 1, 2)

WireSourceId == SubSeq(wire, 4, 7)

Running == {d \in NetIds : device[d].pc = "loop"}

HaltedIds == {halts[k].id : k \in DOMAIN halts}

RoleOf(d) == device[d].core.my_role

\* the active set of d: the identifiers of its active tracked records
ActiveIdsOf(d) ==
    {slot(device[d].core, i).device_id :
        i \in {j \in 0 .. (device[d].core.device_count - 1) : slot(device[d].core, j).active}}

\* d has accepted an observation at some time: it tracks a record
HasObserved(d) == device[d].core.device_count > 0

\* every device runs the loop or has stopped, and the active set of each live
\* device is the set of the other live devices
Converged ==
    /\ \A d \in NetIds : device[d].pc # "off"
    /\ Running # {}
    /\ \A d \in Running : ActiveIdsOf(d) = Running \ {d}

\* every live device computes the highest live identifier as the Master, and
\* the device of that identifier is the one that holds role Master
OneMaster ==
    /\ \A d \in Running : highest_active(device[d].core) = MaxOf(Running)
    /\ {d \in Running : RoleOf(d) = EDTSP_ROLE_MASTER} = {MaxOf(Running)}

\* C2 as stated: in every reachable state in which all devices hold a converged
\* view, every device computes the highest live identifier as the Master and
\* exactly one device holds role Master.
C2_ConvergedOneMaster_AsStated == Converged => OneMaster

\* C2, amended: in every reachable state in which all devices hold a converged
\* view and every live device has accepted at least one observation, every
\* device computes the highest live identifier as the Master and exactly one
\* device holds role Master.  (A device that never accepted an observation has
\* run no election and holds role Unknown.)
C2_ConvergedOneMaster ==
    (Converged /\ \A d \in Running : HasObserved(d)) => OneMaster

\* the Master 200 has stopped, 100 and 150 have swept it, their views have
\* converged again and 150 is the Master
C2_Witness ==
    /\ Converged /\ OneMaster
    /\ Running = {100, 150}
    /\ \E k \in DOMAIN halts : halts[k].id = 200 /\ halts[k].role = EDTSP_ROLE_MASTER
    /\ \A d \in Running : find_device_index(device[d].core, 200) # -1
    /\ RoleOf(150) = EDTSP_ROLE_MASTER /\ RoleOf(100) = EDTSP_ROLE_SLAVE

\* a process stopped while it held role Master
MasterStopped == \E k \in DOMAIN halts : halts[k].role = EDTSP_ROLE_MASTER

\* every survivor holds the stopped processes inactive, the survivor of the
\* highest identifier is Master and every other survivor is Slave
FailoverDone ==
    \A d \in Running :
        /\ ActiveIdsOf(d) \cap HaltedIds = {}
        /\ RoleOf(d) = IF d = MaxOf(Running) THEN EDTSP_ROLE_MASTER ELSE EDTSP_ROLE_SLAVE

\* the only survivor has never accepted an observation, and no process is left
\* to send it one
SoleSurvivorNeverObserved ==
    /\ \A d \in NetIds : device[d].pc # "off"
    /\ \E d \in NetIds : Running = {d} /\ ~ HasObserved(d) /\ device[d].socket = << >>

\* the survivors have run their loop for FailoverDelay since the last process
\* stopped
SurvivorsHaveRun == halts # << >> /\ clock >= halts[Len(halts)].at + FailoverDelay

\* C3 as stated: if the Master stops while the survivors keep running their
\* loop, then eventually (here: once they have run it for the timeout and two
\* more heartbeat intervals) every survivor holds the old Master inactive, the
\* survivor of the highest identifier is Master and every other survivor is
\* Slave.
C3_Failover_AsStated == (MasterStopped /\ SurvivorsHaveRun) => FailoverDone

\* C3, amended: if the Master stops while the survivors keep running their
\* loop, then eventually (here: once they have run it for the timeout and two
\* more heartbeat intervals) every survivor holds the old Master inactive, the
\* survivor of the highest identifier is Master and every other survivor is
\* Slave, unless a single device survives that never accepted an observation:
\* it runs no election and keeps role Unknown.
C3_Failover ==
    (MasterStopped /\ SurvivorsHaveRun) => (FailoverDone \/ SoleSurvivorNeverObserved)

\* 100 and 150 have marked the stopped Master 200 inactive by their sweep, have
\* run for FailoverDelay since it stopped, and 150 has become the Master
C3_Witness ==
    /\ MasterStopped /\ FailoverDone
    /\ Running = {100, 150}
    /\ \A d \in Running :
          /\ find_device_index(device[d].core, 200) # -1
          /\ ~ slot(device[d].core, find_device_index(device[d].core, 200)).active
    /\ halts[Len(halts)].id = 200
    /\ SurvivorsHaveRun
    /\ RoleOf(150) = EDTSP_ROLE_MASTER /\ RoleOf(100) = EDTSP_ROLE_SLAVE

(***************************************************************************)
(* The round trip of a builder and its parser.                             *)
(***************************************************************************)
KindType(r) ==
    CASE r.kind = "header"    -> r.type
      [] r.kind = "discovery" -> EDTSP_TYPE_DISCOVERY
      [] r.kind = "heartbeat" -> EDTSP_TYPE_HEARTBEAT
      [] r.kind = "handshake" -> EDTSP_TYPE_HANDSHAKE
      [] r.kind = "config"    -> EDTSP_TYPE_CONFIG
      [] r.kind = "data"      -> EDTSP_TYPE_DATA

\* the arguments every field of the packet has room for
InRange(r) ==
    CASE r.kind = "discovery" ->
            r.device_name # NULL /\ Len(r.device_name.bytes) <= sizeof_device_name - 1
      [] r.kind = "data"      -> r.data # NULL /\ r.data_len <= sizeof_data
      [] OTHER                -> TRUE

\* the characters of a char array up to its first NUL
CString(field) ==
    LET nuls == {i \in 1 .. Len(field) : field[i] = 0}
    IN  IF nuls = {} THEN field
        ELSE SubSeq(field, 1, (CHOOSE i \in nuls : \A j \in nuls : i <= j) - 1)

\* the payload fields of r as the host reads them in pkt
PayloadRead(host, r, pkt) ==
    CASE r.kind = "header" -> << pkt[8] >>
      [] r.kind = "discovery" -> << pkt[9], CString(SubSeq(pkt, 11, 42)) >>
      [] r.kind = "heartbeat" -> << pkt[9], FieldAt(host, pkt, 10, 13), pkt[14] >>
      [] r.kind = "handshake" ->
            << pkt[9], FieldAt(host, pkt, 10, 13), FieldAt(host, pkt, 14, 15), pkt[16] >>
      [] r.kind = "config" ->
            << FieldAt(host, pkt, 9, 12), pkt[13], FieldAt(host, pkt, 14, 15), pkt[16] >>
      [] r.kind = "data" ->
            << pkt[9], FieldAt(host, pkt, 10, 13), pkt[14], SubSeq(pkt, 15, 14 + pkt[14]) >>

\* the payload fields the builder was called with
PayloadGiven(r) ==
    CASE r.kind = "header" -> << r.payload_len >>
      [] r.kind = "discovery" -> << r.iface_type, r.device_name.bytes >>
      [] r.kind = "heartbeat" -> << r.role, r.uptime_ms, r.active_devices >>
      [] r.kind = "handshake" -> << r.step, r.target_id, r.caps, r.iface_type >>
      [] r.kind = "config" -> << r.target_id, r.sensor_id, r.sampling_rate_ms, r.enable >>
      [] r.kind = "data" ->
            << r.sensor_id, r.timestamp_ms, r.data_len, SubSeq(r.data.bytes, 1, r.data_len) >>

\* C11: a packet of any kind built from in-range arguments and then parsed on
\* the same host has a header that is accepted and holds the kind and the
\* source_id it was built with, and payload fields that read as the arguments.
C11_RoundTrip ==
    (stage = "parsed" /\ InRange(request)) =>
        /\ valid
        /\ header.type = KindType(request)
        /\ header.source_id = request.source_id
        /\ HeaderAt(config.host, packet) = header
        /\ PayloadRead(config.host, request, packet) = PayloadGiven(request)

\* a Data packet of 64 bytes went round on a little-endian host
C11_Witness ==
    /\ stage = "parsed"
    /\ request.kind = "data"
    /\ InRange(request)
    /\ request.data_len = sizeof_data
    /\ request.timestamp_ms = << 1, 2, 3, 4 >>
    /\ config.host = "little"
    /\ valid

\* the other boundary cases of the round trip
C11_WitnessName ==
    /\ stage = "parsed"
    /\ request.kind = "discovery"
    /\ request.device_name # NULL
    /\ Len(request.device_name.bytes) = sizeof_device_name - 1
    /\ valid

C11_WitnessHeader ==
    /\ stage = "parsed"
    /\ request.kind = "header"
    /\ request.payload_len = UINT8_MOD - 1
    /\ valid


(***************************************************************************)
(* Properties of receive_packets, specification SpecRecv.                  *)
(***************************************************************************)
\* the header on the wire is not one of the protocol: the magic is not 0xED61
\* most significant byte first, or the kind is outside 1..5
HeaderFails(datagram) ==
    \/ SubSeq(datagram, 1, 2) # U16(EDTSP_MAGIC)
    \/ datagram[3] \notin EDTSP_TYPE_DISCOVERY .. EDTSP_TYPE_DATA

\* the call left the registry and the role of process d as they were and ran
\* no election
CoreUntouched(d) ==
    /\ Quiet(device'[d].core) = Quiet(device[d].core)
    /\ device'[d].core.elections = 0

\* C13: a datagram with at least a header whose header fails validation is
\* discarded by receive_packets: registry and role stay as they were, no
\* election runs and nothing is printed.
C13_InvalidHeaderDiscarded ==
    [][\A d \in DOMAIN device :
          (/\ op'.name = "receive_packets"
           /\ op'.bytes >= sizeof_EDTSPHeader
           /\ HeaderFails(op'.datagram)) =>
              /\ CoreUntouched(d)
              /\ device'[d].core.out = << >>
      ]_vars

\* a datagram with a bad header was discarded by a process that tracks a peer
C13_Witness ==
    /\ op.name = "receive_packets"
    /\ op.bytes >= sizeof_EDTSPHeader
    /\ HeaderFails(op.datagram)
    /\ \E d \in DOMAIN device :
          /\ device[d].core.device_count > 0
          /\ device[d].core.my_role = EDTSP_ROLE_SLAVE
          /\ device[d].core.elections = 0

\* the byte count is below the header size or below the size of the packet
\* kind named in the header (the kinds receive_packets knows the size of)
ShortRead(bytes, type) ==
    \/ bytes < sizeof_EDTSPHeader
    \/ type = EDTSP_TYPE_DISCOVERY /\ bytes < sizeof_EDTSPDiscoveryPacket
    \/ type = EDTSP_TYPE_HEARTBEAT /\ bytes < sizeof_EDTSPHeartbeatPacket

\* C14: after a receive whose byte count is short, the negative count of a
\* failed or timed-out receive included, receive_packets updates no record
\* and runs no election.
C14_ShortReadsRejected ==
    [][\A d \in DOMAIN device :
          (/\ op'.name = "receive_packets"
           /\ ShortRead(op'.bytes, device'[d].buffer[3])) =>
              CoreUntouched(d)
      ]_vars

\* C15: no slot of the registry of a process holds the identifier of the
\* process itself, and after a call that ran the election the role is Master
\* exactly when no active tracked record has a greater identifier than self.
C15_SelfNeverTracked ==
    \A d \in DOMAIN device :
        LET core == device[d].core
        IN  /\ \A i \in DOMAIN core.device_list : core.device_list[i].device_id # d
            /\ (op.name = "receive_packets" /\ core.elections > 0) =>
                  (core.my_role = EDTSP_ROLE_MASTER <=>
                      \A i \in 0 .. (core.device_count - 1) :
                          slot(core, i).active => slot(core, i).device_id < d)

\* the process read its own heartbeat, whole, while it tracked a lower peer as
\* Master of the registry
C15_Witness ==
    /\ op.name = "receive_packets"
    /\ op.datagram = HeartbeatOf(FillSelfId, EDTSP_ROLE_MASTER)
    /\ \E d \in DOMAIN device :
          /\ device[d].core.device_count > 0
          /\ device[d].core.my_role = EDTSP_ROLE_MASTER

\* the datagram is a whole Discovery or Heartbeat with a valid header from an
\* identifier other than d
ValidPeerObservation(datagram, d) ==
    /\ Len(datagram) >= sizeof_EDTSPHeader
    /\ ~ HeaderFails(datagram)
    /\ SubSeq(datagram, 4, 7) # U32(d)
    /\ \/ datagram[3] = EDTSP_TYPE_DISCOVERY /\ Len(datagram) >= sizeof_EDTSPDiscoveryPacket
       \/ datagram[3] = EDTSP_TYPE_HEARTBEAT /\ Len(datagram) >= sizeof_EDTSPHeartbeatPacket

\* C23: a process whose role is Unknown keeps it, and runs no election, in
\* every call of receive_packets that does not receive a whole valid Discovery
\* or Heartbeat of another identifier; the heartbeat it would send announces
\* Unknown.
C23_UnknownUntilObservation ==
    [][\A d \in DOMAIN device :
          (/\ device[d].core.my_role = EDTSP_ROLE_UNKNOWN
           /\ op'.name = "receive_packets"
           /\ ~ ValidPeerObservation(op'.datagram, d)) =>
              /\ device'[d].core.my_role = EDTSP_ROLE_UNKNOWN
              /\ device'[d].core.elections = 0
              /\ send_heartbeat(device'[d], clock')[9] = EDTSP_ROLE_UNKNOWN
      ]_vars

\* C16: edtsp_build_data called with data_len above 64 writes nothing into the
\* packet and fails in a way its caller can observe: what the call leaves to
\* the caller (it returns nothing and prints nothing, so the packet) is what no
\* accepted call leaves.
C16_OversizeObservable ==
    [][(/\ stage = "idle"
        /\ stage' = "built"
        /\ request.kind = "data"
        /\ request.data # NULL
        /\ request.data_len > sizeof_data) =>
          /\ packet' = packet
          /\ \A r \in Requests :
                (r.kind = "data" /\ InRange(r)) => build(config, r, packet) # packet'
      ]_vars

\* the bytes of the packet of r with every multi-byte field most significant
\* byte first, and single bytes and arrays as they were given
NetworkOrder(r) ==
    U16(EDTSP_MAGIC) \o << KindType(r) >> \o r.source_id
        \o CASE r.kind = "header" -> << r.payload_len >>
             [] r.kind = "discovery" ->
                   << sizeof_EDTSPDiscoveryPacket - sizeof_EDTSPHeader,
                      r.iface_type, EDTSP_VERSION >>
                       \o r.device_name.bytes
                       \o Zeros(sizeof_device_name - Len(r.device_name.bytes))
             [] r.kind = "heartbeat" ->
                   << sizeof_EDTSPHeartbeatPacket - sizeof_EDTSPHeader, r.role >>
                       \o r.uptime_ms \o << r.active_devices >>
             [] r.kind = "handshake" ->
                   << sizeof_EDTSPHandshakePacket - sizeof_EDTSPHeader, r.step >>
                       \o r.target_id \o r.caps \o << r.iface_type >>
             [] r.kind = "config" ->
                   << sizeof_EDTSPConfigPacket - sizeof_EDTSPHeader >>
                       \o r.target_id \o << r.sensor_id >>
                       \o r.sampling_rate_ms \o << r.enable >>
             [] r.kind = "data" ->
                   << sizeof_EDTSPDataPacket - sizeof_EDTSPHeader, r.sensor_id >>
                       \o r.timestamp_ms \o << r.data_len >>
                       \o SubSeq(r.data.bytes, 1, r.data_len)
                       \o Zeros(sizeof_data - r.data_len)

\* C17: for every host byte order and both builds, the packet a builder wrote
\* has magic, source_id, uptime_ms, target_id, capabilities, sampling_rate_ms
\* and timestamp_ms most significant byte first, and single bytes and byte
\* arrays unswapped.
C17_WireBigEndian ==
    (stage # "idle" /\ InRange(request)) => wire = NetworkOrder(request)

\* the device_name field of a Discovery packet in memory
NameField(pkt) == SubSeq(pkt, sizeof_EDTSPDiscoveryPacket - sizeof_device_name + 1,
                         sizeof_EDTSPDiscoveryPacket)

\* the first n elements of a sequence, all of it when it has no more
Prefix(seq, n) == SubSeq(seq, 1, IF Len(seq) < n THEN Len(seq) ELSE n)

\* C21: edtsp_build_discovery builds a Discovery packet for every name: the
\* field holds the first 31 bytes of the name followed by NUL bytes up to its
\* 32 bytes, all 32 NUL for a null pointer, and its last byte is NUL.
C21_NameTruncated ==
    (stage = "built" /\ request.kind = "discovery") =>
        /\ Len(packet) = sizeof_EDTSPDiscoveryPacket
        /\ packet[3] = EDTSP_TYPE_DISCOVERY
        /\ NameField(packet)[sizeof_device_name] = 0
        /\ IF request.device_name = NULL
           THEN NameField(packet) = Zeros(sizeof_device_name)
           ELSE LET kept == Prefix(request.device_name.bytes, sizeof_device_name - 1)
                IN  NameField(packet) = kept \o Zeros(sizeof_device_name - Len(kept))

\* a packet was built from a name of 32 characters
C21_Witness ==
    /\ stage = "built"
    /\ request.kind = "discovery"
    /\ request.device_name # NULL
    /\ Len(request.device_name.bytes) = sizeof_device_name
    /\ NameField(packet)[sizeof_device_name - 1] # 0

\* a packet was built from a null name pointer
C21_WitnessNull ==
    /\ stage = "built"
    /\ request.kind = "discovery"
    /\ request.device_name = NULL

====
